---- MODULE Spec2Model ----
(***************************************************************************)
(* lasr-archive: the ArchiveStore facade (src/src/lib.rs) and its MongoDB  *)
(* adapter (src/src/mongodb_archive.rs).                                   *)
(*                                                                         *)
(* A store is built from three configuration fields.  Every create and     *)
(* find_all call clones the configuration into a fresh MongoDBBackend and  *)
(* runs as an asynchronous task: it suspends at each driver call, so the   *)
(* steps of different calls interleave.  The database is the driver's: a   *)
(* collection is a sequence of BSON documents with a unique "_id".         *)
(***************************************************************************)
EXTENDS Integers, Sequences, FiniteSets, TLC

VARIABLES stores, calls, db, nextOid

vars == <<stores, calls, db, nextOid>>

-----------------------------------------------------------------------------
(* Bounds *)

MaxStores == 2
MaxCalls == 2

-----------------------------------------------------------------------------
(* BSON values and documents *)

Absent == [t |-> "Absent", s |-> "", n |-> 0]
BStr(str) == [t |-> "String", s |-> str, n |-> 0]
BOid(k) == [t |-> "ObjectId", s |-> "", n |-> k]

Doc(id, thing, other) == [_id |-> id, thing |-> thing, other |-> other]

Fields == {"_id", "thing", "other"}

(* The payload values callers pass to create. *)
TestDocA == Doc(Absent, BStr("a"), Absent)
KeyedDocA == Doc(BStr("$exists"), BStr("a"), Absent)
KeyedOther == Doc(BStr("$exists"), Absent, BStr("x"))
NoRec == Doc(Absent, Absent, Absent)

Payloads == {TestDocA, KeyedDocA, KeyedOther}

(* The deserialization target callers ask find_all for, and the fields the *)
(* struct declares.                                                        *)
TargetTypes == {"TestDocument"}
NoTarget == "none"

StructFields(T) == IF T = "TestDocument" THEN {"thing"} ELSE {}

(* serde: every declared field must be present as a string; fields the     *)
(* struct does not declare are ignored.                                    *)
CanDeserialize(d, T) == \A f \in StructFields(T) : d[f].t = "String"

Deserialize(d, T) == [f \in Fields |-> IF f \in StructFields(T) THEN d[f] ELSE Absent]

-----------------------------------------------------------------------------
(* Configuration *)

Unset == "<unset>"
EmptyUri == ""
GoodUri == "mongodb://archive"
DownUri == "mongodb://down"
Uris == {EmptyUri, GoodUri, DownUri}

ArchiveBackends == {"MongoDB"}
Datastores == {"lasr_archive"}

ArchiveRecordType == {"Account", "TransactionBatch"}

ACCOUNT_COLLECTION == "accounts"
TRANSACTION_COLLECTION == "transaction_data"
Collections == {ACCOUNT_COLLECTION, TRANSACTION_COLLECTION}
NoCollection == "<none>"

(* ClientOptions::parse accepts a connection string with a mongodb scheme. *)
ParseOk(uri) == uri \in {GoodUri, DownUri}

(* The deployment the driver can select a server of. *)
Reachable(uri) == uri = GoodUri

-----------------------------------------------------------------------------
(* Results *)

NoResult == [state |-> "pending", id |-> "", records |-> << >>, ctx |-> << >>, cause |-> ""]
OkId(id) == [state |-> "ok", id |-> id, records |-> << >>, ctx |-> << >>, cause |-> ""]
OkRecords(rs) == [state |-> "ok", id |-> "", records |-> rs, ctx |-> << >>, cause |-> ""]
Err(ctx, cause) == [state |-> "err", id |-> "", records |-> << >>, ctx |-> ctx, cause |-> cause]

StoreContext(op) ==
    IF op = "create" THEN "Creating new MongoDB blob." ELSE "Retrieving blobs from MongoDB"

ParseContext(uri) == "Failed to parse MongoDB URI: '" \o uri \o "'"

(* Bson's Display, as inserted_id.to_string() renders the identifier. *)
Hex == <<"1", "2", "3", "4", "5", "6", "7", "8">>
BsonToStringKind(b) ==
    IF b.t = "String" THEN "\"" \o b.s \o "\"" ELSE "ObjectId"

BsonToString(b) ==
    IF b.t = "String" THEN "\"" \o b.s \o "\""
    ELSE "ObjectId(\"" \o Hex[b.n] \o "\")"

-----------------------------------------------------------------------------
(* Sequence helpers *)

RECURSIVE SelectDocs(_, _)
SelectDocs(ds, flt) ==
    IF ds = << >> THEN << >>
    ELSE LET rest == SelectDocs(Tail(ds), flt)
         IN IF \A f \in Fields : flt[f] = Absent \/ Head(ds)[f] = flt[f]
            THEN <<Head(ds)>> \o rest
            ELSE rest

Range(sq) == {sq[i] : i \in DOMAIN sq}

-----------------------------------------------------------------------------
(* Initial state: nothing built, no call made, empty collections. *)

Init ==
    /\ stores = << >>
    /\ calls = << >>
    /\ db = [c \in Collections |-> << >>]
    /\ nextOid = 1

-----------------------------------------------------------------------------
(* ArchiveStoreBuilder::build, generated by derive(Builder): every field   *)
(* is required and has no default.                                         *)

BuildResultValidatingUri(u, b, d) ==
    IF u = Unset \/ b = Unset \/ d = Unset \/ u = EmptyUri
    THEN [built |-> FALSE, uri |-> Unset, backend |-> Unset, datastore |-> Unset,
          given |-> <<u, b, d>>]
    ELSE [built |-> TRUE, uri |-> u, backend |-> b, datastore |-> d,
          given |-> <<u, b, d>>]

BuildResult(u, b, d) ==
    IF u = Unset \/ b = Unset \/ d = Unset
    THEN [built |-> FALSE, uri |-> Unset, backend |-> Unset, datastore |-> Unset,
          given |-> <<u, b, d>>]
    ELSE [built |-> TRUE, uri |-> u, backend |-> b, datastore |-> d,
          given |-> <<u, b, d>>]

(* The field combinations callers hand to the builder: every uri with the  *)
(* other two fields set, and each way of leaving one field out.            *)
BuildInputs == {<<u, "MongoDB", "lasr_archive">> : u \in Uris}

MissingInputs ==
    {<<Unset, "MongoDB", "lasr_archive">>, <<EmptyUri, Unset, "lasr_archive">>,
     <<GoodUri, "MongoDB", Unset>>}

Build(u, b, d) ==
    /\ Len(stores) < MaxStores
    /\ stores' = Append(stores, BuildResult(u, b, d))
    /\ UNCHANGED <<calls, db, nextOid>>

-----------------------------------------------------------------------------------------------------------------------------------------------------
(* MongoDBBackend: the part of a call that runs before its first driver    *)
(* round trip.                                                             *)

Done(call, res) == [call EXCEPT !.pc = "done", !.cursor = << >>, !.result = res]

Finish(c, res) == [calls EXCEPT ![c] = Done(calls[c], res)]

CollectionForAlwaysAccounts(rt) == ACCOUNT_COLLECTION

CollectionForAccountOnly(rt) ==
    IF rt = "Account" THEN ACCOUNT_COLLECTION ELSE NoCollection

(* The if / else-if / else chain that picks the collection handle. *)
CollectionFor(rt) ==
    IF rt = "Account" THEN ACCOUNT_COLLECTION
    ELSE IF rt = "TransactionBatch" THEN TRANSACTION_COLLECTION
    ELSE NoCollection

(* Client::with_options, client.database, collection resolution. *)
Resolve(call) ==
    LET col == CollectionFor(call.rec_type)
    IN IF col = NoCollection
       THEN [call EXCEPT !.pc = "panicked"]
       ELSE [call EXCEPT !.coll = col,
                         !.pc = IF call.op = "create" THEN "insert" ELSE "find"]

ConnectUnchecked(call) == Resolve(call)

(* ClientOptions::parse(&self.uri).await.context(...)? and what follows it *)
(* up to the insert_one / find call.                                       *)
Connect(call) ==
    IF ParseOk(call.adapter.uri)
    THEN Resolve(call)
    ELSE Done(call, Err(<<StoreContext(call.op), ParseContext(call.adapter.uri)>>,
                        "InvalidArgument"))

-----------------------------------------------------------------------------
(* ArchiveStore::create / ArchiveStore::find_all: dispatch on the backend, *)
(* clone the configuration into a fresh MongoDBBackend and call it.  A     *)
(* mongodb:// connection string is parsed without a round trip, so the     *)
(* call first suspends in insert_one / find.                               *)

NewCall(op, s, rt, rec, T) ==
    [op |-> op, store |-> s, rec_type |-> rt, rec |-> rec, target |-> T,
     pc |-> "start",
     adapter |-> [uri |-> stores[s].uri, datastore |-> stores[s].datastore],
     coll |-> NoCollection, cursor |-> << >>, scanned |-> << >>,
     result |-> NoResult]

StoreCreate(s, rt, rec) ==
    /\ Len(calls) < MaxCalls
    /\ s \in DOMAIN stores
    /\ stores[s].built
    /\ stores[s].backend = "MongoDB"
    /\ calls' = Append(calls, Connect(NewCall("create", s, rt, rec, NoTarget)))
    /\ UNCHANGED <<stores, db, nextOid>>

StoreFindAll(s, rt, T) ==
    /\ Len(calls) < MaxCalls
    /\ s \in DOMAIN stores
    /\ stores[s].built
    /\ stores[s].backend = "MongoDB"
    /\ calls' = Append(calls, Connect(NewCall("find_all", s, rt, NoRec, T)))
    /\ UNCHANGED <<stores, db, nextOid>>

-----------------------------------------------------------------------------
(* MongoDBBackend: the driver round trips of a call. *)

(* insert_one: the driver gives the document an ObjectId when the payload  *)
(* has no "_id"; the server refuses an "_id" the collection already holds. *)
HasId(col, id) == \E i \in DOMAIN db[col] : db[col][i]._id = id

InsertedTwice(col, d) == [db EXCEPT ![col] = Append(Append(db[col], d), d)]

Inserted(col, d) == [db EXCEPT ![col] = Append(db[col], d)]

Insert(c) ==
    /\ c \in DOMAIN calls
    /\ calls[c].pc = "insert"
    /\ LET col == calls[c].coll
           gen == calls[c].rec._id = Absent
           d == IF gen THEN [calls[c].rec EXCEPT !._id = BOid(nextOid)] ELSE calls[c].rec
       IN IF ~Reachable(calls[c].adapter.uri)
          THEN /\ calls' = Finish(c, Err(<<StoreContext("create"), "Failed to insert document">>,
                                         "ServerSelection"))
               /\ UNCHANGED <<db, nextOid>>
          ELSE /\ nextOid' = IF gen THEN nextOid + 1 ELSE nextOid
               /\ IF HasId(col, d._id)
                  THEN /\ calls' = Finish(c, Err(<<StoreContext("create"),
                                                   "Failed to insert document">>,
                                                 "DuplicateKey"))
                       /\ db' = db
                  ELSE /\ calls' = Finish(c, OkId(BsonToString(d._id)))
                       /\ db' = Inserted(col, d)
    /\ UNCHANGED stores

(* doc! { "_id": "$exists" } *)
Filter == Doc(BStr("$exists"), Absent, Absent)

FindDraining(c) ==
    /\ c \in DOMAIN calls
    /\ calls[c].pc = "find"
    /\ calls' = [calls EXCEPT ![c].pc = "collect",
                              ![c].scanned = db[calls[c].coll],
                              ![c].cursor = SelectDocs(db[calls[c].coll], Filter)]
    /\ db' = [db EXCEPT ![calls[c].coll] = << >>]
    /\ UNCHANGED <<stores, nextOid>>

(* collection.find(filter, None).await.context(...)? *)
Find(c) ==
    /\ c \in DOMAIN calls
    /\ calls[c].pc = "find"
    /\ IF ~Reachable(calls[c].adapter.uri)
       THEN calls' = Finish(c, Err(<<StoreContext("find_all"), "Failed to find documents">>,
                                   "ServerSelection"))
       ELSE calls' = [calls EXCEPT ![c].pc = "collect",
                                   ![c].scanned = db[calls[c].coll],
                                   ![c].cursor = SelectDocs(db[calls[c].coll], Filter)]
    /\ UNCHANGED <<stores, db, nextOid>>

TryCollectSkipping(cur, T) ==
    OkRecords([i \in DOMAIN SelectSeq(cur, LAMBDA d : CanDeserialize(d, T)) |->
                  Deserialize(SelectSeq(cur, LAMBDA d : CanDeserialize(d, T))[i], T)])

(* cursor.try_collect().await? : the first document that fails to          *)
(* deserialize ends the stream with its error.                             *)
TryCollect(cur, T) ==
    IF \E i \in DOMAIN cur : ~CanDeserialize(cur[i], T)
    THEN Err(<<StoreContext("find_all")>>, "Deserialization")
    ELSE OkRecords([i \in DOMAIN cur |-> Deserialize(cur[i], T)])

Collect(c) ==
    /\ c \in DOMAIN calls
    /\ calls[c].pc = "collect"
    /\ calls' = Finish(c, TryCollect(calls[c].cursor, calls[c].target))
    /\ UNCHANGED <<stores, db, nextOid>>

-----------------------------------------------------------------------------

Next ==
    \/ \E in \in BuildInputs : Build(in[1], in[2], in[3])
    \/ \E s \in 1..MaxStores, rt \in ArchiveRecordType, rec \in Payloads :
          StoreCreate(s, rt, rec)
    \/ \E s \in 1..MaxStores, rt \in ArchiveRecordType, T \in TargetTypes :
          StoreFindAll(s, rt, T)
    \/ \E c \in 1..MaxCalls : Insert(c)
    \/ \E c \in 1..MaxCalls : Find(c)
    \/ \E c \in 1..MaxCalls : Collect(c)

Spec == Init /\ [][Next]_vars

(* The builder with fields left out, and the calls of the example on the   *)
(* stores it yields.                                                       *)
NextBuilder ==
    \/ \E in \in BuildInputs \cup MissingInputs : Build(in[1], in[2], in[3])
    \/ \E s \in 1..MaxStores, rt \in ArchiveRecordType : StoreCreate(s, rt, TestDocA)
    \/ \E s \in 1..MaxStores, rt \in ArchiveRecordType : StoreFindAll(s, rt, "TestDocument")
    \/ \E c \in 1..MaxCalls : Insert(c)
    \/ \E c \in 1..MaxCalls : Find(c)
    \/ \E c \in 1..MaxCalls : Collect(c)

SpecBuilder == Init /\ [][NextBuilder]_vars

-----------------------------------------------------------------------------
(* Vocabulary of the properties *)

CallIds == DOMAIN calls
Creates == {c \in CallIds : calls[c].op = "create"}
FindAlls == {c \in CallIds : calls[c].op = "find_all"}
IsDone(c) == calls[c].pc = "done"
IsOk(c) == IsDone(c) /\ calls[c].result.state = "ok"
IsErr(c) == IsDone(c) /\ calls[c].result.state = "err"
OkCreates == {c \in Creates : IsOk(c)}

(* The record-type table of the documentation, written out. *)
DocumentedCollection(rt) == IF rt = "Account" THEN "accounts" ELSE "transaction_data"

SameTarget(c, f) ==
    /\ calls[c].rec_type = calls[f].rec_type
    /\ calls[c].adapter = calls[f].adapter

(* The query of find_all f ran after create c had stored its document. *)
ScannedBy(f, c) ==
    \E i \in DOMAIN calls[f].scanned : BsonToString(calls[f].scanned[i]._id) = calls[c].result.id

(* T is the type the payload v was serialized from. *)
ShapeOf(v, T) == CanDeserialize(v, T) /\ Deserialize(v, T) = v

AllDeserialize(ds, T) == \A i \in DOMAIN ds : CanDeserialize(ds[i], T)

-----------------------------------------------------------------------------
(* C1: round trip.  Once create(t, v) has succeeded, a later find_all(t)   *)
(* on the same uri and datastore, asked for the type of v over a           *)
(* collection of that one shape, succeeds and its result includes v.       *)
RoundTrip ==
    \A c \in OkCreates : \A f \in FindAlls :
        ( /\ IsDone(f)
          /\ SameTarget(c, f)
          /\ ScannedBy(f, c)
          /\ ShapeOf(calls[c].rec, calls[f].target)
          /\ AllDeserialize(calls[f].scanned, calls[f].target) )
        => /\ IsOk(f)
           /\ calls[c].rec \in Range(calls[f].result.records)

-----------------------------------------------------------------------------
(* C2: find_all(t) returns all records of type t currently stored: as many *)
(* records as the collection holds when the query runs, and the empty      *)
(* sequence, not an error, when it holds none.                             *)
FindAllReturnsAll ==
    \A f \in FindAlls :
        ( /\ IsDone(f)
          /\ Reachable(calls[f].adapter.uri)
          /\ AllDeserialize(calls[f].scanned, calls[f].target) )
        => /\ IsOk(f)
           /\ Len(calls[f].result.records) = Len(calls[f].scanned)

-----------------------------------------------------------------------------
(* C3: isolation.  Account resolves only to "accounts" and                 *)
(* TransactionBatch only to "transaction_data", in create and find_all;    *)
(* every document of a collection was stored by a create of that           *)
(* collection's record type, and every document a find_all scans and every *)
(* record it returns comes from a create of the same record type.          *)
Isolation ==
    /\ \A c \in CallIds :
          calls[c].coll # NoCollection
          => calls[c].coll = DocumentedCollection(calls[c].rec_type)
    /\ \A rt \in ArchiveRecordType :
          \A i \in DOMAIN db[DocumentedCollection(rt)] :
             \E c \in OkCreates :
                /\ calls[c].rec_type = rt
                /\ calls[c].result.id = BsonToString(db[DocumentedCollection(rt)][i]._id)
    /\ \A f \in FindAlls :
          /\ \A i \in DOMAIN calls[f].scanned :
                \E c \in OkCreates :
                   /\ calls[c].rec_type = calls[f].rec_type
                   /\ calls[c].result.id = BsonToString(calls[f].scanned[i]._id)
          /\ \A i \in DOMAIN calls[f].result.records :
                \E c \in OkCreates :
                   /\ calls[c].rec_type = calls[f].rec_type
                   /\ calls[f].result.records[i] = Deserialize(calls[c].rec, calls[f].target)

(* A create(Account) stored a document and a find_all(TransactionBatch)    *)
(* that ran afterwards returned without it.                                *)
IsolationWitness ==
    \E c \in OkCreates : \E f \in FindAlls :
        /\ calls[c].rec_type = "Account"
        /\ calls[f].rec_type = "TransactionBatch"
        /\ f > c
        /\ IsOk(f)
        /\ db["accounts"] # << >>
        /\ calls[f].result.records = << >>

-----------------------------------------------------------------------------
(* C4: error surfacing.  With an unparseable connection string a call ends *)
(* in an error carrying the parse context; with an unreachable backend it  *)
(* ends in the driver's server-selection error.  Such a call returns no    *)
(* identifier and no records, does not panic, and stores nothing.          *)
ErrorResults ==
    \A c \in CallIds :
        /\ ~ParseOk(calls[c].adapter.uri)
           => /\ IsErr(c)
              /\ calls[c].result.ctx =
                    <<StoreContext(calls[c].op),
                      "Failed to parse MongoDB URI: '" \o calls[c].adapter.uri \o "'">>
              /\ calls[c].result.cause = "InvalidArgument"
        /\ (ParseOk(calls[c].adapter.uri) /\ ~Reachable(calls[c].adapter.uri))
           => /\ calls[c].pc # "panicked"
              /\ IsDone(c) => /\ IsErr(c)
                              /\ calls[c].result.cause = "ServerSelection"
                              /\ Len(calls[c].result.ctx) = 2
        /\ IsErr(c) => calls[c].result.id = "" /\ calls[c].result.records = << >>

FailedCallsPersistNothing ==
    \A c \in CallIds :
        (calls'[c] # calls[c] /\ calls'[c].result.state # "ok") => db' = db

ErrorSurfacing == []ErrorResults /\ [][FailedCallsPersistNothing]_vars

(* A create on the empty connection string and a call on an unreachable    *)
(* backend have both returned.                                             *)
ErrorSurfacingWitness ==
    /\ \E c \in Creates : calls[c].adapter.uri = EmptyUri /\ IsErr(c)
    /\ \E c \in CallIds : calls[c].adapter.uri = DownUri /\ IsErr(c)

-----------------------------------------------------------------------------
(* C5 as stated: two stores of identical configuration that perform the    *)
(* same create both succeed with distinct identifiers, and any two         *)
(* successful creates return different identifiers.                        *)
SameCreate(c1, c2) ==
    /\ calls[c1].store # calls[c2].store
    /\ stores[calls[c1].store] = stores[calls[c2].store]
    /\ calls[c1].rec_type = calls[c2].rec_type
    /\ calls[c1].rec = calls[c2].rec
    /\ Reachable(calls[c1].adapter.uri)

Stored(c) ==
    Cardinality({i \in DOMAIN db[calls[c].coll] :
                    BsonToString(db[calls[c].coll][i]._id) = calls[c].result.id})

-----------------------------------------------------------------------------
-----------------------------------------------------------------------------
(* C7: no partial success.  When a document the query selected does not    *)
(* deserialize into the target type, find_all returns an error and no      *)
(* records.                                                                *)
Selected(f) == SelectDocs(calls[f].scanned, Doc(BStr("$exists"), Absent, Absent))

-----------------------------------------------------------------------------
(* C8: build succeeds exactly when uri, backend and datastore were all     *)
(* set and keeps the values as given; an empty uri is accepted by build    *)
(* and refused by the calls made on the store.                             *)
BuilderValidatesPresenceOnly ==
    /\ \A s \in DOMAIN stores :
          /\ stores[s].built <=> (\A k \in 1..3 : stores[s].given[k] # Unset)
          /\ stores[s].built =>
                <<stores[s].uri, stores[s].backend, stores[s].datastore>> = stores[s].given
    /\ \A c \in CallIds :
          stores[calls[c].store].given[1] = EmptyUri
          => IsErr(c) /\ calls[c].result.cause = "InvalidArgument"

(* A store with an empty uri was built and a call on it has failed, and a  *)
(* build with a missing field has failed.                                  *)
BuilderWitness ==
    /\ \E s \in DOMAIN stores : stores[s].built /\ stores[s].uri = EmptyUri
                                 /\ \E c \in CallIds : calls[c].store = s /\ IsErr(c)
    /\ \E s \in DOMAIN stores : ~stores[s].built

-----------------------------------------------------------------------------
(* C9: collection resolution never panics: every call past it holds one of *)
(* the two collections.                                                    *)
NeverPanics ==
    \A c \in CallIds :
        /\ calls[c].pc # "panicked"
        /\ calls[c].pc \in {"insert", "find", "collect"} => calls[c].coll \in Collections
        /\ IsOk(c) => calls[c].coll \in Collections

(* Calls of both record types have gone through collection resolution. *)
NeverPanicsWitness ==
    /\ \E c \in Creates : calls[c].rec_type = "TransactionBatch" /\ calls[c].coll = "transaction_data"
    /\ \E f \in FindAlls : calls[f].rec_type = "Account" /\ calls[f].coll = "accounts"

-----------------------------------------------------------------------------
(* C10: no step changes a built store; a finished call keeps no cursor;    *)
(* only the insert of a create changes the database, and only the          *)
(* collection of its record type; a step of a find_all changes no          *)
(* collection.                                                             *)
StatelessStep ==
    /\ \A s \in DOMAIN stores : stores'[s] = stores[s]
    /\ \A c \in DOMAIN calls' : calls'[c].pc = "done" => calls'[c].cursor = << >>
    /\ db' # db =>
          \E c \in Creates :
             /\ calls[c].pc = "insert"
             /\ calls'[c].pc = "done"
             /\ \A col \in Collections :
                   col # DocumentedCollection(calls[c].rec_type) => db'[col] = db[col]
    /\ \A f \in FindAlls : calls'[f] # calls[f] => db' = db

CallsAreStateless == [][StatelessStep]_vars

(* A find_all has returned after querying a collection that holds a       *)
(* record, and the collection still holds what the query scanned.          *)
StatelessWitness ==
    \E f \in FindAlls :
        /\ IsDone(f)
        /\ calls[f].scanned # << >>
        /\ db[calls[f].coll] = calls[f].scanned

====
